---- MODULE Spec2Model ----
(***************************************************************************)
(* A model of ADOMigrationTool (src/ado_migration.py): the sequential      *)
(* migration of repositories, pull requests and work items from a source   *)
(* project to a target project through remote calls that may each fail.    *)
(*                                                                         *)
(* The program is one thread.  Every remote call (an HTTP request or a git *)
(* transfer) is one step whose outcome the environment chooses; the target *)
(* project is the environment's state and changes only when a mutating     *)
(* call succeeds.                                                          *)
(***************************************************************************)
EXTENDS Integers, Sequences, FiniteSets, TLC

\* ------------------------------------------------------------------ bounds

\* Number of repositories of the source project.
MaxRepos == 2
\* Number of pull requests of the source project (over all its repositories).
MaxPRs == 2
\* Largest number of comment threads of a source pull request.
MaxThreads == 2
\* Largest number of comments over the threads handed to add_comments_to_pr.
MaxComments == 2
\* Number of work items the source query returns.
MaxItems == 2
\* Largest number of relations of a source work item.
MaxRels == 2
\* Number of times the entry method is invoked.
MaxRuns == 2
\* Largest number of fields, besides its type, of the source work item
\* handed to create_work_item.
MaxFields == 3
\* Largest number of failing remote calls of an execution.
MaxFailures == 1
\* The id the target server gives the first work item it creates.
FirstTargetId == 101

\* ------------------------------------------------------- program constants

source_org == "srcorg"
source_project == "sproj"
target_org == "tgtorg"
target_project == "tproj"

\* list_work_items fetches the details of at most this many ids per request.
BatchSize == 100

\* Python's None, and a dictionary key that is absent.
None == "<None>"
NoKey == "<absent>"

RepoNames == 1..MaxRepos
PRIds == 1..MaxPRs
ItemIds == 1..MaxItems
\* A source work item outside the query's type/date filter.
FilteredItem == MaxItems + 1

Entries ==
    {"run_migration", "migrate_repos", "migrate_pull_requests",
     "migrate_work_items", "add_comments_to_pr", "create_work_item"}

VARIABLES
    \* the driver
    entry,              \* the method the caller invokes
    run,                \* how many times it has been invoked
    pc,                 \* position of the program
    failures,           \* failed remote calls so far
    calls,              \* remote calls of this invocation, in order
    posts,              \* thread payloads POSTed in this invocation
    updates,            \* status payloads PATCHed in this invocation
    creates,            \* work item payloads POSTed in this invocation
    patches,            \* relation payloads PATCHed in this invocation
    not_found,          \* repositories logged "Target repository ... not found"
    \* the tool instance
    work_item_map,
    \* locals of migrate_repos / migrate_pull_requests / clone_repo
    source_repos, target_repo_map, i, target_repo, project_id, temp_dir,
    \* locals of migrate_pull_requests / add_comments_to_pr
    prs, j, pr_details, new_pr, threads, k,
    \* locals of migrate_work_items
    work_item_references, b, source_work_items, w, relations,
    \* the source project (never written)
    srcPRRepo, srcPRStatus, srcPRThreads, srcRels, srcFields,
    \* the target project and the local disk
    tgtRepos, tgtPushed, tgtPRs, tgtWIs, tempDirs

driverVars == <<entry, run, pc, failures, calls, posts, updates, creates, patches, not_found>>
repoLocals == <<source_repos, target_repo_map, i, target_repo, project_id, temp_dir>>
prLocals == <<prs, j, pr_details, new_pr, threads, k>>
wiLocals == <<work_item_references, b, source_work_items, w, relations>>
srcVars == <<srcPRRepo, srcPRStatus, srcPRThreads, srcRels, srcFields>>
tgtVars == <<tgtRepos, tgtPushed, tgtPRs, tgtWIs, tempDirs>>
vars == <<driverVars, work_item_map, repoLocals, prLocals, wiLocals, srcVars, tgtVars>>

\* ------------------------------------------------------------ environment

\* The outcomes of a remote call: success, or a failure while the execution
\* has failures left.
Outcomes == IF failures < MaxFailures THEN BOOLEAN ELSE {TRUE}

Failed(ok) == failures + (IF ok THEN 0 ELSE 1)

\* One entry of the call log.
Call(fn, op, ent, ok) == [fn |-> fn, op |-> op, ent |-> ent, ok |-> ok, held |-> FALSE]

\* The repositories of the source project, in listing order.
SourceRepos == [n \in 1..MaxRepos |-> n]

\* The names of the repositories the target project holds.
TargetRepos == {n \in RepoNames : tgtRepos[n] > 0}


\* ----------------------------------------------------------------- driver

\* The first position of a method.
Start(fn) ==
    CASE fn = "run_migration" -> "mr_list_src"
      [] fn = "migrate_repos" -> "mr_list_src"
      [] fn = "migrate_pull_requests" -> "pr_list_src"
      [] fn = "migrate_work_items" -> "wi_query"
      [] fn = "add_comments_to_pr" -> "ac_loop"
      [] fn = "create_work_item" -> "wi_create"

\* A run_migration that migrates the work items before the pull requests.
AfterPhase_ItemsFirst(fn) ==
    CASE fn = "migrate_repos" -> "wi_query"
      [] fn = "migrate_work_items" -> "pr_list_src"
      [] fn = "migrate_pull_requests" -> "done"

\* run_migration: migrate_repos, then migrate_pull_requests, then
\* migrate_work_items.
AfterPhase(fn) ==
    CASE fn = "migrate_repos" -> "pr_list_src"
      [] fn = "migrate_pull_requests" -> "wi_query"
      [] fn = "migrate_work_items" -> "done"

\* A run_migration that returns after its first sync method.
Return_FirstOnly(fn) == "done"

\* The position a sync method returns to: the next step of run_migration, or
\* the caller when the method was invoked on its own.
Return(fn) == IF entry = "run_migration" THEN AfterPhase(fn) ELSE "done"

\* ------------------------------------------------------------ list_repos

RECURSIVE TargetRepoList(_)
\* The target project's repositories up to name n, one element per repository.
TargetRepoList(n) ==
    IF n = 0 THEN <<>>
    ELSE TargetRepoList(n - 1) \o [x \in 1..tgtRepos[n] |-> n]

\* A list_repos that answers with the listing whatever the status.
list_repos_Always(is_source, ok) ==
    IF is_source THEN SourceRepos ELSE TargetRepoList(MaxRepos)

\* list_repos: the listing on status 200, the empty list otherwise.
list_repos(is_source, ok) ==
    IF ok
    THEN IF is_source THEN SourceRepos ELSE TargetRepoList(MaxRepos)
    ELSE <<>>

\* {repo["name"]: repo for repo in target_repos}: the names that have an entry.
RepoMap(repos) == {repos[x] : x \in DOMAIN repos}

\* ---------------------------------------------------------- migrate_repos

\* A migrate_repos that leaves a repository alone when the target has it.
RepoBranch_SkipExisting(repo_name, map) ==
    IF repo_name \in map THEN "mr_loop" ELSE "create_pid"

\* `if repo_name in target_repo_map`: reuse the repository, else create it.
RepoBranch(repo_name, map) ==
    IF repo_name \in map THEN "clone_mkdtemp" ELSE "create_pid"

\* A migrate_repos that goes on to clone_repo after a failed creation.
AfterCreateRepo_NoSkip(ok) == "clone_mkdtemp"

\* `if not target_repo: continue`, else fall through to clone_repo.
AfterCreateRepo(ok) == IF ok THEN "clone_mkdtemp" ELSE "mr_loop"

MR_ListSource ==
    /\ pc = "mr_list_src"
    /\ \E ok \in Outcomes :
        /\ source_repos' = list_repos(TRUE, ok)
        /\ calls' = Append(calls, Call("migrate_repos", "list_repos_source", 0, ok))
        /\ failures' = Failed(ok)
    /\ pc' = "mr_list_tgt"
    /\ UNCHANGED <<entry, not_found, run, posts, updates, creates, patches, work_item_map, target_repo_map, i,
                   target_repo, project_id, temp_dir, prLocals, wiLocals, srcVars, tgtVars>>

MR_ListTarget ==
    /\ pc = "mr_list_tgt"
    /\ \E ok \in Outcomes :
        /\ target_repo_map' = RepoMap(list_repos(FALSE, ok))
        /\ calls' = Append(calls, Call("migrate_repos", "list_repos_target", 0, ok))
        /\ failures' = Failed(ok)
    /\ i' = 1
    /\ pc' = "mr_loop"
    /\ UNCHANGED <<entry, not_found, run, posts, updates, creates, patches, work_item_map, source_repos,
                   target_repo, project_id, temp_dir, prLocals, wiLocals, srcVars, tgtVars>>

\* The head of `for source_repo in source_repos` and the existence check.
MR_NextRepo ==
    /\ pc = "mr_loop"
    /\ IF i > Len(source_repos)
       THEN /\ pc' = Return("migrate_repos")
            /\ source_repos' = <<>>
            /\ target_repo_map' = {}
            /\ i' = 0
            /\ target_repo' = 0
       ELSE /\ pc' = RepoBranch(source_repos[i], target_repo_map)
            /\ target_repo' = IF source_repos[i] \in target_repo_map
                              THEN source_repos[i] ELSE 0
            /\ i' = IF RepoBranch(source_repos[i], target_repo_map) = "mr_loop"
                    THEN i + 1 ELSE i
            /\ UNCHANGED <<source_repos, target_repo_map>>
    /\ UNCHANGED <<entry, not_found, run, failures, calls, posts, updates, creates, patches, work_item_map,
                   project_id, temp_dir, prLocals, wiLocals, srcVars, tgtVars>>

\* create_repo, first request: get_project_id(False).
MR_GetProjectId ==
    /\ pc = "create_pid"
    /\ \E ok \in Outcomes :
        /\ project_id' = IF ok THEN "pid" ELSE None
        /\ calls' = Append(calls, Call("migrate_repos", "get_project_id", source_repos[i], ok))
        /\ failures' = Failed(ok)
    /\ pc' = "create_post"
    /\ UNCHANGED <<entry, not_found, run, posts, updates, creates, patches, work_item_map, source_repos,
                   target_repo_map, i, target_repo, temp_dir, prLocals, wiLocals,
                   srcVars, tgtVars>>

\* create_repo, second request: the POST.  On 201 the target holds one more
\* repository of that name.
MR_CreateRepo ==
    /\ pc = "create_post"
    /\ \E ok \in Outcomes :
        /\ calls' = Append(calls,
              [Call("migrate_repos", "create_repo", source_repos[i], ok)
                 EXCEPT !.held = tgtRepos[source_repos[i]] > 0])
        /\ failures' = Failed(ok)
        /\ tgtRepos' = IF ok THEN [tgtRepos EXCEPT ![source_repos[i]] = @ + 1] ELSE tgtRepos
        /\ target_repo' = IF ok THEN source_repos[i] ELSE 0
        /\ i' = IF AfterCreateRepo(ok) = "mr_loop" THEN i + 1 ELSE i
        /\ pc' = AfterCreateRepo(ok)
    /\ project_id' = None
    /\ UNCHANGED <<entry, not_found, run, posts, updates, creates, patches, work_item_map, source_repos,
                   target_repo_map, temp_dir, prLocals, wiLocals, srcVars,
                   tgtPushed, tgtPRs, tgtWIs, tempDirs>>

\* ------------------------------------------------------------- clone_repo

\* tempfile.mkdtemp(): a directory that did not exist.
CR_Mkdtemp ==
    /\ pc = "clone_mkdtemp"
    /\ temp_dir' = CHOOSE d \in 1..(Cardinality(tempDirs) + 1) : d \notin tempDirs
    /\ tempDirs' = tempDirs \cup {temp_dir'}
    /\ pc' = "clone_from"
    /\ UNCHANGED <<entry, not_found, run, failures, calls, posts, updates, creates, patches, work_item_map,
                   source_repos, target_repo_map, i, target_repo, project_id,
                   prLocals, wiLocals, srcVars, tgtRepos, tgtPushed, tgtPRs, tgtWIs>>

\* Repo.clone_from(..., mirror=True): an exception goes to the except clause
\* and from there to the finally clause.
CR_CloneFrom ==
    /\ pc = "clone_from"
    /\ \E ok \in Outcomes :
        /\ calls' = Append(calls, Call("migrate_repos", "git_clone", source_repos[i], ok))
        /\ failures' = Failed(ok)
        /\ pc' = IF ok THEN "clone_push" ELSE "clone_finally"
    /\ UNCHANGED <<entry, not_found, run, posts, updates, creates, patches, work_item_map, repoLocals,
                   prLocals, wiLocals, srcVars, tgtVars>>

\* git push target --mirror: on success the target repository holds the
\* source's history.
CR_Push ==
    /\ pc = "clone_push"
    /\ \E ok \in Outcomes :
        /\ calls' = Append(calls, Call("migrate_repos", "git_push", target_repo, ok))
        /\ failures' = Failed(ok)
        /\ tgtPushed' = IF ok THEN [tgtPushed EXCEPT ![target_repo] = TRUE] ELSE tgtPushed
    /\ pc' = "clone_finally"
    /\ UNCHANGED <<entry, not_found, run, posts, updates, creates, patches, work_item_map, repoLocals,
                   prLocals, wiLocals, srcVars, tgtRepos, tgtPRs, tgtWIs, tempDirs>>

\* shutil.rmtree(path, ignore_errors=True): the tree is gone, or a removal
\* failed and the failure was ignored.
rmtree(dirs, path, ok) == IF ok THEN dirs \ {path} ELSE dirs

\* finally: shutil.rmtree(temp_dir, ignore_errors=True); clone_repo returns
\* and the loop goes on.
CR_Finally ==
    /\ pc = "clone_finally"
    /\ \E ok \in Outcomes :
        /\ tempDirs' = rmtree(tempDirs, temp_dir, ok)
        /\ failures' = Failed(ok)
    /\ temp_dir' = 0
    /\ target_repo' = 0
    /\ i' = i + 1
    /\ pc' = "mr_loop"
    /\ UNCHANGED <<entry, not_found, run, calls, posts, updates, creates, patches, work_item_map,
                   source_repos, target_repo_map, project_id, prLocals, wiLocals,
                   srcVars, tgtRepos, tgtPushed, tgtPRs, tgtWIs>>

\* -------------------------------------------------- source pull requests

Statuses == {"active", "completed", "abandoned"}

\* An absent "parentCommentId" key of a source comment.
NoParent == -1

\* A listing that leaves out the pull requests the target has a copy of.
SourcePRs_Unmigrated(repo_name) ==
    SelectSeq([p \in 1..MaxPRs |-> p],
              LAMBDA p : srcPRRepo[p] = repo_name /\ \A t \in DOMAIN tgtPRs : tgtPRs[t].src # p)

\* The source pull requests of a repository, in listing order.
SourcePRs(repo_name) ==
    SelectSeq([p \in 1..MaxPRs |-> p], LAMBDA p : srcPRRepo[p] = repo_name)

SrcTitle(p) == "title" \o ToString(p)

\* Every other source pull request has no description (null).
SrcDescription(p) == IF p % 2 = 1 THEN None ELSE "desc" \o ToString(p)

\* pr_details before a detail fetch and after a failed one (None).
NoDetails ==
    [pullRequestId |-> 0, title |-> "", description |-> None,
     status |-> "active", threads |-> <<>>]

\* ------------------------------------------------ get_pull_request_details

\* The first GET: the pull request's fields, or None on a failure.
pr_fields(p, ok) ==
    IF ok
    THEN [pullRequestId |-> p, title |-> SrcTitle(p), description |-> SrcDescription(p),
          status |-> srcPRStatus[p], threads |-> <<>>]
    ELSE NoDetails

\* The second GET: pr_details["threads"] is the thread list, or [] on a failure.
pr_threads(p, ok) == IF ok THEN srcPRThreads[p] ELSE <<>>

\* ----------------------------------------------------- create_pull_request

\* A body that takes the title and the status over as they are.
new_pr_data_Verbatim(pr_data) ==
    [title |-> pr_data.title,
     description |-> "Migrated from " \o source_org \o "/" \o source_project \o "\n\n"
                     \o (IF pr_data.description = None THEN "" ELSE pr_data.description),
     status |-> pr_data.status]

\* The body POSTed for a source pull request.
new_pr_data(pr_data) ==
    [title |-> "[MIGRATED] " \o pr_data.title,
     description |-> "Migrated from " \o source_org \o "/" \o source_project \o "\n\n"
                     \o (IF pr_data.description = None THEN "" ELSE pr_data.description),
     status |-> "active"]

\* ------------------------------------------------------ add_comments_to_pr

\* A body that posts every comment as top-level.
thread_data_Flat(thread) ==
    [comments |->
        [c \in DOMAIN thread.comments |->
            [content |-> thread.comments[c].content, parentCommentId |-> 0]],
     status |-> IF thread.status = NoKey THEN "active" ELSE thread.status,
     threadContext |->
        IF thread.threadContext \notin {NoKey, None} THEN thread.threadContext ELSE NoKey]

\* The body POSTed for one source thread.
thread_data(thread) ==
    [comments |->
        [c \in DOMAIN thread.comments |->
            [content |-> thread.comments[c].content,
             parentCommentId |->
                IF thread.comments[c].parentCommentId = NoParent
                THEN 0 ELSE thread.comments[c].parentCommentId]],
     status |-> IF thread.status = NoKey THEN "active" ELSE thread.status,
     threadContext |->
        IF thread.threadContext \notin {NoKey, None} THEN thread.threadContext ELSE NoKey]

\* The sync method on whose behalf add_comments_to_pr issues its requests.
CommentsCaller ==
    IF entry = "add_comments_to_pr" THEN "add_comments_to_pr" ELSE "migrate_pull_requests"

\* The head of `for thread in threads`.
AC_NextThread ==
    /\ pc = "ac_loop"
    /\ IF k > Len(threads)
       THEN /\ pc' = IF entry = "add_comments_to_pr" THEN "done" ELSE "pr_status_check"
            /\ threads' = <<>>
            /\ k' = 0
       ELSE /\ pc' = "ac_post"
            /\ UNCHANGED <<threads, k>>
    /\ UNCHANGED <<entry, not_found, run, failures, calls, posts, updates, creates, patches, work_item_map,
                   repoLocals, prs, j, pr_details, new_pr, wiLocals, srcVars, tgtVars>>

\* A loop that a failed POST ends.
AfterPost_Break(ok) == IF ok THEN "ac_loop" ELSE "pr_status_check"

\* After the POST of a thread, failed or not, the loop goes on.
AfterPost(ok) == "ac_loop"

\* The POST of one thread; a failure is only logged.
AC_PostThread ==
    /\ pc = "ac_post"
    /\ \E ok \in Outcomes :
        /\ calls' = Append(calls, Call(CommentsCaller, "post_thread", pr_details.pullRequestId, ok))
        /\ posts' = Append(posts, [pr |-> new_pr, data |-> thread_data(threads[k]), ok |-> ok])
        /\ failures' = Failed(ok)
        /\ tgtPRs' = IF ok
                     THEN [tgtPRs EXCEPT ![new_pr].threads = Append(@, thread_data(threads[k]))]
                     ELSE tgtPRs
        /\ pc' = AfterPost(ok)
    /\ k' = k + 1
    /\ UNCHANGED <<entry, not_found, run, updates, creates, patches, work_item_map, repoLocals, prs, j, pr_details,
                   new_pr, threads, wiLocals, srcVars, tgtRepos, tgtPushed, tgtWIs, tempDirs>>

\* --------------------------------------------------- migrate_pull_requests

\* A migrate_pull_requests that goes on with a repository it did not find.
PRRepoBranch_NoSkip(repo_name, map) == "pr_list_prs"

\* `if repo_name not in target_repo_map: continue`.
PRRepoBranch(repo_name, map) ==
    IF repo_name \notin map THEN "pr_loop" ELSE "pr_list_prs"

\* A migrate_pull_requests that goes on after a failed fetch of the fields.
AfterFields_NoSkip(ok) == "pr_threads"

\* `if not pr_details: continue`, else the thread list is fetched and the
\* pull request created.
AfterFields(ok) == IF ok THEN "pr_threads" ELSE "pr_next"

\* `if not new_pr: continue`, then `if ... pr_details["threads"]`.
AfterCreatePR(ok, details) ==
    IF ~ok THEN "pr_next"
    ELSE IF details.threads # <<>> THEN "ac_loop" ELSE "pr_status_check"

\* A migrate_pull_requests that reconciles only abandoned pull requests.
StatusBranch_AbandonedOnly(details) ==
    IF details.status = "abandoned" THEN "pr_update_status" ELSE "pr_next"

\* `if pr_details["status"] != "active"`.
StatusBranch(details) ==
    IF details.status # "active" THEN "pr_update_status" ELSE "pr_next"

PR_ListSource ==
    /\ pc = "pr_list_src"
    /\ \E ok \in Outcomes :
        /\ source_repos' = list_repos(TRUE, ok)
        /\ calls' = Append(calls, Call("migrate_pull_requests", "list_repos_source", 0, ok))
        /\ failures' = Failed(ok)
    /\ pc' = "pr_list_tgt"
    /\ UNCHANGED <<entry, not_found, run, posts, updates, creates, patches, work_item_map, target_repo_map, i,
                   target_repo, project_id, temp_dir, prLocals, wiLocals, srcVars, tgtVars>>

PR_ListTarget ==
    /\ pc = "pr_list_tgt"
    /\ \E ok \in Outcomes :
        /\ target_repo_map' = RepoMap(list_repos(FALSE, ok))
        /\ calls' = Append(calls, Call("migrate_pull_requests", "list_repos_target", 0, ok))
        /\ failures' = Failed(ok)
    /\ i' = 1
    /\ pc' = "pr_loop"
    /\ UNCHANGED <<entry, not_found, run, posts, updates, creates, patches, work_item_map, source_repos,
                   target_repo, project_id, temp_dir, prLocals, wiLocals, srcVars, tgtVars>>

\* The head of `for source_repo in source_repos` and the lookup of the
\* target repository.
PR_NextRepo ==
    /\ pc = "pr_loop"
    /\ IF i > Len(source_repos)
       THEN /\ pc' = Return("migrate_pull_requests")
            /\ source_repos' = <<>>
            /\ target_repo_map' = {}
            /\ i' = 0
            /\ target_repo' = 0
            /\ UNCHANGED not_found
       ELSE /\ pc' = PRRepoBranch(source_repos[i], target_repo_map)
            /\ target_repo' = IF PRRepoBranch(source_repos[i], target_repo_map) = "pr_loop"
                              THEN 0 ELSE source_repos[i]
            /\ i' = IF PRRepoBranch(source_repos[i], target_repo_map) = "pr_loop"
                    THEN i + 1 ELSE i
            /\ not_found' = IF source_repos[i] \notin target_repo_map
                            THEN not_found \cup {source_repos[i]} ELSE not_found
            /\ UNCHANGED <<source_repos, target_repo_map>>
    /\ UNCHANGED <<entry, run, failures, calls, posts, updates, creates, patches, work_item_map,
                   project_id, temp_dir, prLocals, wiLocals, srcVars, tgtVars>>

\* list_pull_requests(source_repo["id"], True): [] on a failure.
PR_ListPullRequests ==
    /\ pc = "pr_list_prs"
    /\ \E ok \in Outcomes :
        /\ prs' = IF ok THEN SourcePRs(source_repos[i]) ELSE <<>>
        /\ calls' = Append(calls,
              Call("migrate_pull_requests", "list_pull_requests", source_repos[i], ok))
        /\ failures' = Failed(ok)
    /\ j' = 1
    /\ pc' = "pr_next"
    /\ UNCHANGED <<entry, not_found, run, posts, updates, creates, patches, work_item_map, repoLocals,
                   pr_details, new_pr, threads, k, wiLocals, srcVars, tgtVars>>

\* The head of `for pr in prs`.
PR_NextPR ==
    /\ pc = "pr_next"
    /\ IF j > Len(prs)
       THEN /\ pc' = "pr_loop"
            /\ i' = i + 1
            /\ target_repo' = 0
            /\ prs' = <<>>
            /\ j' = 0
       ELSE /\ pc' = "pr_fields"
            /\ UNCHANGED <<i, target_repo, prs, j>>
    /\ pr_details' = NoDetails
    /\ new_pr' = 0
    /\ UNCHANGED <<entry, not_found, run, failures, calls, posts, updates, creates, patches, work_item_map,
                   source_repos, target_repo_map, project_id, temp_dir, threads, k,
                   wiLocals, srcVars, tgtVars>>

\* get_pull_request_details, first request.
PR_GetFields ==
    /\ pc = "pr_fields"
    /\ \E ok \in Outcomes :
        /\ pr_details' = pr_fields(prs[j], ok)
        /\ calls' = Append(calls, Call("migrate_pull_requests", "get_pr", prs[j], ok))
        /\ failures' = Failed(ok)
        /\ pc' = AfterFields(ok)
        /\ j' = IF AfterFields(ok) = "pr_next" THEN j + 1 ELSE j
    /\ UNCHANGED <<entry, not_found, run, posts, updates, creates, patches, work_item_map, repoLocals, prs,
                   new_pr, threads, k, wiLocals, srcVars, tgtVars>>

\* get_pull_request_details, second request.
PR_GetThreads ==
    /\ pc = "pr_threads"
    /\ \E ok \in Outcomes :
        /\ pr_details' = [pr_details EXCEPT !.threads = pr_threads(prs[j], ok)]
        /\ calls' = Append(calls, Call("migrate_pull_requests", "get_threads", prs[j], ok))
        /\ failures' = Failed(ok)
    /\ pc' = "pr_create"
    /\ UNCHANGED <<entry, not_found, run, posts, updates, creates, patches, work_item_map, repoLocals, prs, j,
                   new_pr, threads, k, wiLocals, srcVars, tgtVars>>

\* create_pull_request(target_repo["id"], pr_details): on 201 the target
\* holds a new pull request with the posted fields.
PR_Create ==
    /\ pc = "pr_create"
    /\ \E ok \in Outcomes :
        /\ calls' = Append(calls, Call("migrate_pull_requests", "create_pr", prs[j], ok))
        /\ failures' = Failed(ok)
        /\ tgtPRs' = IF ok
                     THEN Append(tgtPRs,
                            [repo |-> target_repo, src |-> prs[j],
                             title |-> new_pr_data(pr_details).title,
                             description |-> new_pr_data(pr_details).description,
                             status |-> new_pr_data(pr_details).status,
                             threads |-> <<>>])
                     ELSE tgtPRs
        /\ new_pr' = IF ok THEN Len(tgtPRs) + 1 ELSE 0
        /\ pc' = AfterCreatePR(ok, pr_details)
        /\ j' = IF AfterCreatePR(ok, pr_details) = "pr_next" THEN j + 1 ELSE j
        /\ threads' = IF AfterCreatePR(ok, pr_details) = "ac_loop"
                      THEN pr_details.threads ELSE <<>>
        /\ k' = IF AfterCreatePR(ok, pr_details) = "ac_loop" THEN 1 ELSE 0
    /\ UNCHANGED <<entry, not_found, run, posts, updates, creates, patches, work_item_map, repoLocals, prs,
                   pr_details, wiLocals, srcVars, tgtRepos, tgtPushed, tgtWIs, tempDirs>>

\* The status test after the threads.
PR_CheckStatus ==
    /\ pc = "pr_status_check"
    /\ pc' = StatusBranch(pr_details)
    /\ j' = IF StatusBranch(pr_details) = "pr_next" THEN j + 1 ELSE j
    /\ UNCHANGED <<entry, not_found, run, failures, calls, posts, updates, creates, patches, work_item_map,
                   repoLocals, prs, pr_details, new_pr, threads, k, wiLocals,
                   srcVars, tgtVars>>

\* A body that always asks for status completed.
status_data_Completed(status) == "completed"

\* data = {"status": status}
status_data(status) == status

\* update_pr_status(target_repo["id"], new_pr["pullRequestId"], status): on
\* 200 the target pull request has that status.
PR_UpdateStatus ==
    /\ pc = "pr_update_status"
    /\ \E ok \in Outcomes :
        /\ calls' = Append(calls, Call("migrate_pull_requests", "update_pr_status", prs[j], ok))
        /\ failures' = Failed(ok)
        /\ tgtPRs' = IF ok
                     THEN [tgtPRs EXCEPT ![new_pr].status = status_data(pr_details.status)]
                     ELSE tgtPRs
        /\ updates' = Append(updates,
              [pr |-> new_pr, src |-> prs[j],
               status |-> status_data(pr_details.status), ok |-> ok])
    /\ j' = j + 1
    /\ pc' = "pr_next"
    /\ UNCHANGED <<entry, not_found, run, posts, creates, patches, work_item_map, repoLocals, prs,
                   pr_details, new_pr, threads, k, wiLocals, srcVars,
                   tgtRepos, tgtPushed, tgtWIs, tempDirs>>

\* ------------------------------------------------------ source work items

\* The ids the work item query returns, ORDER BY [System.Id].
SourceItems == [n \in 1..MaxItems |-> n]

\* The url of a work item as a sequence of the segments between slashes;
\* `form` is the spelling of the resource segment.
WorkItemUrl(org, form, id) ==
    <<"https:", "", "dev.azure.com", org, "_apis", "wit", form, ToString(id)>>

\* A relation to something that is no work item.
Hyperlink == [rel |-> "Hyperlink", url |-> <<"https:", "", "wiki.example.com", "page">>]

RelKinds == {"System.LinkTypes.Related", "System.LinkTypes.Hierarchy-Reverse"}

\* The spellings of the resource segment: the lower-case one
\* update_work_item_relations looks for, and the one it writes itself.
UrlForms == {"workitems", "workItems"}

\* The relations source work item a can have: to the queried item next to
\* it (the first one for the last) or to the filtered one, in either
\* spelling, or a hyperlink.
RelationsOf(a) ==
    {[rel |-> r, url |-> WorkItemUrl(source_org, f, t)] :
        r \in RelKinds, f \in UrlForms, t \in {(a % MaxItems) + 1, FilteredItem}}
    \cup {Hyperlink}

\* ------------------------------------------------------- list_work_items

\* work_item_references[i:i+100] for the b-th i of range(0, len, 100).
Batch(references, n) ==
    SubSeq(references, (n - 1) * BatchSize + 1,
           IF n * BatchSize < Len(references) THEN n * BatchSize ELSE Len(references))

\* The WIQL POST: on a failure list_work_items returns [].
WI_Query ==
    /\ pc = "wi_query"
    /\ \E ok \in Outcomes :
        /\ work_item_references' = IF ok THEN SourceItems ELSE <<>>
        /\ calls' = Append(calls, Call("migrate_work_items", "wiql", 0, ok))
        /\ failures' = Failed(ok)
    /\ b' = 1
    /\ source_work_items' = <<>>
    /\ pc' = "wi_batch"
    /\ UNCHANGED <<entry, not_found, run, posts, updates, creates, patches, work_item_map, repoLocals,
                   prLocals, w, relations, srcVars, tgtVars>>

\* The head of the loop over the batches; after the last one list_work_items
\* returns and the first pass starts.
WI_NextBatch ==
    /\ pc = "wi_batch"
    /\ IF (b - 1) * BatchSize >= Len(work_item_references)
       THEN /\ pc' = "wi_create_loop"
            /\ w' = 1
            /\ work_item_references' = <<>>
            /\ b' = 0
       ELSE /\ pc' = "wi_details"
            /\ UNCHANGED <<w, work_item_references, b>>
    /\ UNCHANGED <<entry, not_found, run, failures, calls, posts, updates, creates, patches, work_item_map,
                   repoLocals, prLocals, source_work_items, relations, srcVars, tgtVars>>

\* The GET of one batch's details: a failed batch is left out.
WI_GetDetails ==
    /\ pc = "wi_details"
    /\ \E ok \in Outcomes :
        /\ source_work_items' =
             IF ok THEN source_work_items \o Batch(work_item_references, b)
             ELSE source_work_items
        /\ calls' = Append(calls, Call("migrate_work_items", "get_work_items", b, ok))
        /\ failures' = Failed(ok)
    /\ b' = b + 1
    /\ pc' = "wi_batch"
    /\ UNCHANGED <<entry, not_found, run, posts, updates, creates, patches, work_item_map, repoLocals,
                   prLocals, work_item_references, w, relations, srcVars, tgtVars>>

\* ------------------------------------------------ update_work_item_relations

\* The id of the n-th work item the target server creates, and back.
TargetId(n) == FirstTargetId + n - 1
TargetIndex(id) == id - FirstTargetId + 1

\* `"/workitems/" in relation["url"]`: a segment "workitems" between slashes.
IsWorkItemUrl(url) == \E x \in 2..(Len(url) - 1) : url[x] = "workitems"

\* int(s) for the decimal strings of the ids in use.
ParseInt(str) == CHOOSE n \in 0..(FirstTargetId + MaxItems * MaxRuns) : ToString(n) = str

\* int(relation["url"].split("/")[-1])
UrlSourceId(url) == ParseInt(url[Len(url)])

\* A store that forgets the mappings recorded before.
MapPut_Only(map, source_id, target_id) == [x \in {source_id} |-> target_id]

\* self.work_item_map[source_id] = target_id
MapPut(map, source_id, target_id) ==
    [x \in DOMAIN map \cup {source_id} |-> IF x = source_id THEN target_id ELSE map[x]]

\* A rewrite that leaves the source id in the url.
RelationOps_SourceId(rels, map) ==
    LET kept == SelectSeq(rels, LAMBDA r :
                    IsWorkItemUrl(r.url) /\ UrlSourceId(r.url) \in DOMAIN map)
    IN  [x \in DOMAIN kept |->
            [op |-> "add", path |-> "/relations/-",
             value |-> [rel |-> kept[x].rel,
                        url |-> WorkItemUrl(target_org, "workItems", UrlSourceId(kept[x].url))]]]

\* The operations built from the relations: one per relation whose url is
\* a work item url of a mapped source id, with the target id in the url.
RelationOps(rels, map) ==
    LET kept == SelectSeq(rels, LAMBDA r :
                    IsWorkItemUrl(r.url) /\ UrlSourceId(r.url) \in DOMAIN map)
    IN  [x \in DOMAIN kept |->
            [op |-> "add", path |-> "/relations/-",
             value |-> [rel |-> kept[x].rel,
                        url |-> WorkItemUrl(target_org, "workItems",
                                            map[UrlSourceId(kept[x].url)])]]]

\* -------------------------------------------------------- create_work_item

\* The fields a source work item can carry, in the order of its "fields"
\* object.
FieldNames ==
    <<"System.Id", "System.Rev", "System.CreatedBy", "System.CreatedDate",
      "System.ChangedBy", "System.ChangedDate", "System.CommentCount",
      "System.TeamProject", "System.AreaPath", "System.IterationPath",
      "System.WorkItemType", "System.Title", "System.Description", "Custom.Team">>

\* The value the source holds for a field.
SourceValue(field) == "source " \o field

exclude_fields ==
    {"System.Id", "System.Rev", "System.CreatedBy", "System.CreatedDate",
     "System.ChangedBy", "System.ChangedDate", "System.CommentCount",
     "System.TeamProject", "System.AreaPath", "System.IterationPath"}

\* A field filter that lets the area and iteration path of the source through.
Excluded_NoPaths(field) ==
    field \in exclude_fields \ {"System.AreaPath", "System.IterationPath"}

\* `field not in exclude_fields`, negated.
Excluded(field) == field \in exclude_fields

AddOp(field, value) == [op |-> "add", path |-> "/fields/" \o field, value |-> value]

migration_notice ==
    "<p><em>Migrated from " \o source_org \o "/" \o source_project \o "</em></p>"

\* fields.get("System.Description", "") or ""
original_description(fields) ==
    IF "System.Description" \in DOMAIN fields /\ fields["System.Description"] # None
    THEN fields["System.Description"] ELSE ""

\* The operations create_work_item POSTs for a source item's fields: one per
\* field that is not excluded and not null, then the description with the
\* migration notice, then the area path and the iteration path.
create_operations(fields) ==
    LET copied == SelectSeq(FieldNames, LAMBDA f :
                    f \in DOMAIN fields /\ ~Excluded(f) /\ fields[f] # None)
    IN  [x \in DOMAIN copied |-> AddOp(copied[x], fields[copied[x]])]
        \o <<AddOp("System.Description", migration_notice \o original_description(fields)),
             AddOp("System.AreaPath", target_project),
             AddOp("System.IterationPath", target_project)>>

\* ------------------------------------------------------ migrate_work_items

\* A first pass that tries a failed creation again.
AfterCreateItem_Retry(ok) == IF ok THEN "wi_create_loop" ELSE "wi_create"

\* After create_work_item the first pass goes on with the next item.
AfterCreateItem(ok) == "wi_create_loop"

\* The head of `for work_item in source_work_items`, first pass.
WI_NextCreate ==
    /\ pc = "wi_create_loop"
    /\ IF w > Len(source_work_items)
       THEN /\ pc' = "wi_rel_loop"
            /\ w' = 1
       ELSE /\ pc' = "wi_create"
            /\ UNCHANGED w
    /\ UNCHANGED <<entry, not_found, run, failures, calls, posts, updates, creates, patches, work_item_map,
                   repoLocals, prLocals, work_item_references, b, source_work_items,
                   relations, srcVars, tgtVars>>

\* create_work_item: the payload is POSTed and on 200 the target holds a new
\* work item; migrate_work_items then stores the mapping source id ->
\* target id.
WI_Create ==
    /\ pc = "wi_create"
    /\ \E ok \in Outcomes :
        /\ calls' = Append(calls,
              Call("migrate_work_items", "create_work_item", source_work_items[w], ok))
        /\ failures' = Failed(ok)
        /\ tgtWIs' = IF ok
                     THEN Append(tgtWIs, [id |-> TargetId(Len(tgtWIs) + 1),
                                          src |-> source_work_items[w], rels |-> <<>>])
                     ELSE tgtWIs
        /\ work_item_map' = IF ok /\ entry # "create_work_item"
                            THEN MapPut(work_item_map, source_work_items[w],
                                        TargetId(Len(tgtWIs) + 1))
                            ELSE work_item_map
        /\ pc' = IF entry = "create_work_item" THEN "done" ELSE AfterCreateItem(ok)
        /\ w' = IF AfterCreateItem(ok) = "wi_create_loop" THEN w + 1 ELSE w
    /\ creates' = Append(creates,
          [src |-> source_work_items[w],
           operations |-> create_operations(srcFields[source_work_items[w]])])
    /\ UNCHANGED <<entry, not_found, run, posts, updates, patches, repoLocals, prLocals,
                   work_item_references, b, source_work_items, relations, srcVars,
                   tgtRepos, tgtPushed, tgtPRs, tempDirs>>

\* The head of the second pass and `if work_item["id"] in self.work_item_map`.
WI_NextRelations ==
    /\ pc = "wi_rel_loop"
    /\ IF w > Len(source_work_items)
       THEN /\ pc' = Return("migrate_work_items")
            /\ source_work_items' = <<>>
            /\ w' = 0
       ELSE /\ pc' = IF source_work_items[w] \in DOMAIN work_item_map
                     THEN "wi_get_relations" ELSE "wi_rel_loop"
            /\ w' = IF source_work_items[w] \in DOMAIN work_item_map THEN w ELSE w + 1
            /\ UNCHANGED source_work_items
    /\ UNCHANGED <<entry, not_found, run, failures, calls, posts, updates, creates, patches, work_item_map,
                   repoLocals, prLocals, work_item_references, b, relations, srcVars, tgtVars>>

\* get_work_item_relations(work_item["id"], True): [] on a failure.
WI_GetRelations ==
    /\ pc = "wi_get_relations"
    /\ \E ok \in Outcomes :
        /\ relations' = IF ok THEN srcRels[source_work_items[w]] ELSE <<>>
        /\ calls' = Append(calls,
              Call("migrate_work_items", "get_relations", source_work_items[w], ok))
        /\ failures' = Failed(ok)
    /\ pc' = "wi_patch"
    /\ UNCHANGED <<entry, not_found, run, posts, updates, creates, patches, work_item_map, repoLocals,
                   prLocals, work_item_references, b, source_work_items, w, srcVars, tgtVars>>

\* update_work_item_relations(target_id, relations): the PATCH is sent when
\* there is an operation; on 200 the target work item has the relations.
WI_UpdateRelations ==
    /\ pc = "wi_patch"
    /\ LET target_id == work_item_map[source_work_items[w]]
           operations == RelationOps(relations, work_item_map)
       IN  IF operations = <<>>
           THEN UNCHANGED <<calls, failures, patches, tgtWIs>>
           ELSE \E ok \in Outcomes :
                /\ calls' = Append(calls,
                      Call("migrate_work_items", "update_relations", source_work_items[w], ok))
                /\ failures' = Failed(ok)
                /\ patches' = Append(patches,
                      [wi |-> target_id, src |-> source_work_items[w],
                       ops |-> operations, ok |-> ok])
                /\ tgtWIs' = IF ok
                             THEN [tgtWIs EXCEPT ![TargetIndex(target_id)].rels =
                                     @ \o [x \in DOMAIN operations |-> operations[x].value]]
                             ELSE tgtWIs
    /\ relations' = <<>>
    /\ w' = w + 1
    /\ pc' = "wi_rel_loop"
    /\ UNCHANGED <<entry, not_found, run, posts, updates, creates, work_item_map, repoLocals, prLocals,
                   work_item_references, b, source_work_items, srcVars,
                   tgtRepos, tgtPushed, tgtPRs, tempDirs>>

\* ----------------------------------------------------------- invocations

\* The caller invokes the entry method once more on the same tool instance.
Reinvoke ==
    /\ pc = "done"
    /\ run < MaxRuns
    /\ run' = run + 1
    /\ pc' = Start(entry)
    /\ calls' = <<>>
    /\ posts' = <<>>
    /\ updates' = <<>>
    /\ creates' = <<>>
    /\ patches' = <<>>
    /\ not_found' = {}
    /\ UNCHANGED <<entry, failures, work_item_map, repoLocals, prLocals, wiLocals, srcVars, tgtVars>>

\* The state after ADOMigrationTool.__init__, before the entry method runs.
InitTool ==
    /\ run = 1
    /\ failures = 0
    /\ calls = <<>>
    /\ posts = <<>>
    /\ updates = <<>>
    /\ creates = <<>>
    /\ patches = <<>>
    /\ not_found = {}
    /\ work_item_map = <<>>
    /\ source_repos = <<>> /\ target_repo_map = {} /\ i = 0 /\ target_repo = 0
    /\ project_id = None /\ temp_dir = 0
    /\ prs = <<>> /\ j = 0 /\ pr_details = NoDetails /\ new_pr = 0
    /\ work_item_references = <<>> /\ b = 0
    /\ relations = <<>>
    /\ tempDirs = {}

\* A target project that holds no pull request and no work item yet.
FreshTarget ==
    /\ tgtPushed = [n \in RepoNames |-> FALSE]
    /\ tgtPRs = <<>>
    /\ tgtWIs = <<>>

\* A source project without pull requests and work items.
NoPRs ==
    /\ srcPRRepo = <<>>
    /\ srcPRStatus = <<>>
    /\ srcPRThreads = <<>>

NoItems == srcRels = <<>> /\ srcFields = <<>>

\* migrate_repos invoked on its own, against any target project that holds
\* at most one repository of a name.
InitRepos ==
    /\ InitTool
    /\ FreshTarget
    /\ entry = "migrate_repos"
    /\ pc = Start("migrate_repos")
    /\ threads = <<>> /\ k = 0
    /\ source_work_items = <<>> /\ w = 0
    /\ tgtRepos \in [RepoNames -> {0, 1}]
    /\ NoPRs
    /\ NoItems

NextRepos ==
    \/ MR_ListSource
    \/ MR_ListTarget
    \/ MR_NextRepo
    \/ MR_GetProjectId
    \/ MR_CreateRepo
    \/ CR_Mkdtemp
    \/ CR_CloneFrom
    \/ CR_Push
    \/ CR_Finally
    \/ Reinvoke

SpecRepos == InitRepos /\ [][NextRepos]_vars

\* A source thread: its comments carry the parent ids `parents`, in order,
\* and contents that tell the comments of the whole list apart.
MakeThread(t, parents, extra) ==
    [comments |-> [c \in DOMAIN parents |->
                     [content |-> 10 * t + c, parentCommentId |-> parents[c]]],
     status |-> extra.status,
     threadContext |-> extra.threadContext]

\* Thread status and file anchor: both keys absent, a null anchor, an anchor.
ThreadExtras ==
    {[status |-> NoKey, threadContext |-> NoKey],
     [status |-> "fixed", threadContext |-> None],
     [status |-> "active", threadContext |-> "file:12"]}

ParentIds == {NoParent, 0, 1}

\* The threads of a source pull request that has threads: MaxThreads of
\* them, a two-comment thread without keys alternating with an anchored
\* one-comment thread.
CanonThreads ==
    [t \in 1..MaxThreads |->
        IF t % 2 = 1
        THEN MakeThread(t, <<NoParent, 1>>, [status |-> NoKey, threadContext |-> NoKey])
        ELSE MakeThread(t, <<0>>, [status |-> "fixed", threadContext |-> "file:12"])]

\* The assignments of the pull requests to repositories, pull request ids
\* following the repository order.
PRAssignments ==
    {f \in [PRIds -> RepoNames] : \A p, q \in PRIds : p <= q => f[p] <= f[q]}

\* The statuses of the pull requests: the three statuses in turn, from any
\* of them on.
StatusAssignments ==
    {[p \in PRIds |-> <<"completed", "abandoned", "active">>[((p + sh) % 3) + 1]] :
        sh \in 0..2}

\* The threads of the pull requests: CanonThreads for each, the last one
\* possibly without any thread.
ThreadAssignments ==
    {[p \in PRIds |-> IF p = bare THEN <<>> ELSE CanonThreads] : bare \in {0, MaxPRs}}

\* The target projects that hold every source repository's name but at most
\* one.
TargetsMissingOne ==
    {[n \in RepoNames |-> IF n = m THEN 0 ELSE 1] : m \in 0..MaxRepos}

\* migrate_pull_requests invoked on its own.
InitPRs ==
    /\ InitTool
    /\ FreshTarget
    /\ entry = "migrate_pull_requests"
    /\ pc = Start("migrate_pull_requests")
    /\ threads = <<>> /\ k = 0
    /\ source_work_items = <<>> /\ w = 0
    /\ tgtRepos \in TargetsMissingOne
    /\ srcPRRepo \in PRAssignments
    /\ srcPRStatus \in StatusAssignments
    /\ srcPRThreads \in ThreadAssignments
    /\ NoItems

NextPRs ==
    \/ PR_ListSource
    \/ PR_ListTarget
    \/ PR_NextRepo
    \/ PR_ListPullRequests
    \/ PR_NextPR
    \/ PR_GetFields
    \/ PR_GetThreads
    \/ PR_Create
    \/ AC_NextThread
    \/ AC_PostThread
    \/ PR_CheckStatus
    \/ PR_UpdateStatus

SpecPRs == InitPRs /\ [][NextPRs]_vars

\* The shapes of a thread of at most c comments: the parent ids of its
\* comments, its status and its anchor.
ThreadShapes(c) ==
    [parents : UNION {[1..m -> ParentIds] : m \in 0..c}, extra : ThreadExtras]

RECURSIVE ShapeLists(_, _)
\* The lists of at most n thread shapes with at most c comments in all.
ShapeLists(n, c) ==
    IF n = 0 THEN {<<>>}
    ELSE {<<>>} \cup
         UNION {{<<sh>> \o rest : rest \in ShapeLists(n - 1, c - Len(sh.parents))} :
                sh \in ThreadShapes(c)}

\* The thread lists of at most MaxThreads threads and MaxComments comments.
ThreadLists ==
    {[t \in DOMAIN sh |-> MakeThread(t, sh[t].parents, sh[t].extra)] :
        sh \in ShapeLists(MaxThreads, MaxComments)}

\* add_comments_to_pr(repo, pr, threads) invoked on its own for an active
\* target pull request, with the threads of source pull request 1.
InitComments ==
    /\ InitTool
    /\ entry = "add_comments_to_pr"
    /\ pc = Start("add_comments_to_pr")
    /\ srcPRRepo = <<1>>
    /\ srcPRStatus = <<"active">>
    /\ srcPRThreads \in [{1} -> ThreadLists]
    /\ NoItems
    /\ threads = srcPRThreads[1] /\ k = 1
    /\ source_work_items = <<>> /\ w = 0
    /\ tgtRepos = [n \in RepoNames |-> 1]
    /\ tgtPushed = [n \in RepoNames |-> FALSE]
    /\ tgtPRs = <<[repo |-> 1, src |-> 1, title |-> "[MIGRATED] title1",
                   description |-> "", status |-> "active", threads |-> <<>>]>>
    /\ tgtWIs = <<>>

NextComments ==
    \/ AC_NextThread
    \/ AC_PostThread

SpecComments == InitComments /\ [][NextComments]_vars

\* The fields of a source work item as the details request returns them:
\* every system field with a value, a title and no description.
CanonFields ==
    [f \in exclude_fields \cup {"System.WorkItemType", "System.Title"} |-> SourceValue(f)]

\* The field mappings of a source work item: its type and at most MaxFields
\* other fields, each with a value or null.
FieldMappings ==
    LET others == {FieldNames[x] : x \in DOMAIN FieldNames} \ {"System.WorkItemType"}
    IN  UNION {{[f \in S \cup {"System.WorkItemType"} |->
                    IF f \in nulls THEN None ELSE SourceValue(f)] : nulls \in SUBSET S} :
               S \in {T \in SUBSET others : Cardinality(T) <= MaxFields}}

\* create_work_item(work_item_data) invoked on its own for source work item
\* 1, with any field mapping.
InitCreate ==
    /\ InitTool
    /\ FreshTarget
    /\ entry = "create_work_item"
    /\ pc = Start("create_work_item")
    /\ threads = <<>> /\ k = 0
    /\ source_work_items = <<1>> /\ w = 1
    /\ tgtRepos = [n \in RepoNames |-> 1]
    /\ NoPRs
    /\ srcRels = [a \in ItemIds |-> <<>>]
    /\ srcFields \in {[a \in ItemIds |-> IF a = 1 THEN m ELSE CanonFields] :
                        m \in FieldMappings}

NextCreate == WI_Create

SpecCreate == InitCreate /\ [][NextCreate]_vars

\* The relation lists of the source work items: one item has at most
\* MaxRels relations, the others have none.
RelAssignments ==
    UNION {{[x \in ItemIds |-> IF x = a THEN rels ELSE <<>>] :
                rels \in UNION {[1..m -> RelationsOf(a)] : m \in 0..MaxRels}} :
           a \in ItemIds}

\* migrate_work_items invoked on its own.
InitItems ==
    /\ InitTool
    /\ FreshTarget
    /\ entry = "migrate_work_items"
    /\ pc = Start("migrate_work_items")
    /\ threads = <<>> /\ k = 0
    /\ source_work_items = <<>> /\ w = 0
    /\ tgtRepos = [n \in RepoNames |-> 1]
    /\ NoPRs
    /\ srcRels \in RelAssignments
    /\ srcFields = [a \in ItemIds |-> CanonFields]

NextItems ==
    \/ WI_Query
    \/ WI_NextBatch
    \/ WI_GetDetails
    \/ WI_NextCreate
    \/ WI_Create
    \/ WI_NextRelations
    \/ WI_GetRelations
    \/ WI_UpdateRelations

SpecItems == InitItems /\ [][NextItems]_vars

\* run_migration, as main() invokes it: a target project without
\* repositories or with the first one; pull requests spread over the
\* repositories in turn, all completed, the first with threads; the first
\* work item related to the second.
Init ==
    /\ InitTool
    /\ FreshTarget
    /\ entry = "run_migration"
    /\ pc = Start("run_migration")
    /\ threads = <<>> /\ k = 0
    /\ source_work_items = <<>> /\ w = 0
    /\ tgtRepos \in {[n \in RepoNames |-> IF n <= m THEN 1 ELSE 0] : m \in 0..1}
    /\ srcPRRepo = [p \in PRIds |-> ((p - 1) % MaxRepos) + 1]
    /\ srcPRStatus = [p \in PRIds |-> "completed"]
    /\ srcPRThreads = [p \in PRIds |-> IF p = 1 THEN CanonThreads ELSE <<>>]
    /\ srcRels = [x \in ItemIds |->
                     IF x = 1
                     THEN <<[rel |-> "System.LinkTypes.Related",
                             url |-> WorkItemUrl(source_org, "workitems", 2)]>>
                     ELSE <<>>]
    /\ srcFields = [a \in ItemIds |-> CanonFields]

Next ==
    \/ MR_ListSource
    \/ MR_ListTarget
    \/ MR_NextRepo
    \/ MR_GetProjectId
    \/ MR_CreateRepo
    \/ CR_Mkdtemp
    \/ CR_CloneFrom
    \/ CR_Push
    \/ CR_Finally
    \/ PR_ListSource
    \/ PR_ListTarget
    \/ PR_NextRepo
    \/ PR_ListPullRequests
    \/ PR_NextPR
    \/ PR_GetFields
    \/ PR_GetThreads
    \/ PR_Create
    \/ AC_NextThread
    \/ AC_PostThread
    \/ PR_CheckStatus
    \/ PR_UpdateStatus
    \/ WI_Query
    \/ WI_NextBatch
    \/ WI_GetDetails
    \/ WI_NextCreate
    \/ WI_Create
    \/ WI_NextRelations
    \/ WI_GetRelations
    \/ WI_UpdateRelations
    \/ Reinvoke

Spec == Init /\ [][Next]_vars

\* run_migration against a target project without repositories.
InitLive ==
    /\ Init
    /\ tgtRepos = [n \in RepoNames |-> 0]

\* The program is one thread that runs whenever it has a step to take.
SpecLive == InitLive /\ [][Next]_vars /\ WF_vars(Next)

\* ------------------------------------------------------ reading the log

\* The positions of the log at which request `op` was issued for entity `ent`.
CallsOf(op, ent) == {x \in DOMAIN calls : calls[x].op = op /\ calls[x].ent = ent}

Issued(op, ent) == CallsOf(op, ent) # {}

Succeeded(op, ent) == \E x \in CallsOf(op, ent) : calls[x].ok

Finished == pc = "done"

\* ---------------------------------------------------------------- claims

\* C1: running migrate_repos twice never leaves the target with two
\* repositories of one name, and the second run issues no create-repository
\* request for a name the target already holds, whatever the outcomes of the
\* list, create and transfer calls.
C1_Idempotent ==
    /\ \A n \in RepoNames : tgtRepos[n] <= 1
    /\ run = 2 =>
         \A x \in DOMAIN calls : calls[x].op = "create_repo" => ~calls[x].held

\* C8: when migrate_repos has finished a listed source repository list, each
\* repository was processed whatever happened to the others: it was either
\* transferred without a creation, or created and transferred, or its
\* creation failed and no transfer was attempted for it.
C8_FailureSkipsOnlyThatRepo ==
    (Finished /\ entry = "migrate_repos" /\ calls[1].ok) =>
        \A n \in RepoNames :
            /\ Issued("git_clone", n) \/ Issued("create_repo", n)
            /\ Issued("create_repo", n) =>
                 (Issued("git_clone", n) <=> Succeeded("create_repo", n))
            /\ Cardinality(CallsOf("git_clone", n)) <= 1

\* C8 witness: the first repository's creation failed and the run went on
\* to transfer the second one.
C8_Witness ==
    /\ Finished /\ entry = "migrate_repos" /\ calls[1].ok
    /\ Issued("create_repo", 1) /\ ~Succeeded("create_repo", 1)
    /\ Succeeded("git_push", 2)


\* The target pull requests created from source pull request p.
TargetsOf(p) == {t \in DOMAIN tgtPRs : tgtPRs[t].src = p}

FailedCall(op, ent) == Issued(op, ent) /\ ~Succeeded(op, ent)

\* C4 as stated: when migrate_pull_requests has finished, every target pull
\* request created from a completed (abandoned) source pull request is
\* completed (abandoned).
C4_Original ==
    (Finished /\ entry = "migrate_pull_requests") =>
        \A t \in DOMAIN tgtPRs :
            srcPRStatus[tgtPRs[t].src] # "active" =>
                tgtPRs[t].status = srcPRStatus[tgtPRs[t].src]

\* C4 amended: for every target pull request created from a completed
\* (abandoned) source pull request one status update was issued; when
\* migrate_pull_requests has finished the target pull request is completed
\* (abandoned) if that update succeeded and still active if it failed.
C4_StatusReconciled ==
    (Finished /\ entry = "migrate_pull_requests") =>
        \A t \in DOMAIN tgtPRs :
            LET p == tgtPRs[t].src IN
            srcPRStatus[p] # "active" =>
                /\ Cardinality(CallsOf("update_pr_status", p)) = 1
                /\ tgtPRs[t].status =
                     IF Succeeded("update_pr_status", p) THEN srcPRStatus[p] ELSE "active"

\* C4 witness: a completed source pull request whose target is completed,
\* and an abandoned one whose update failed.
C4_Witness ==
    /\ Finished /\ entry = "migrate_pull_requests"
    /\ \E t \in DOMAIN tgtPRs :
        srcPRStatus[tgtPRs[t].src] = "completed" /\ tgtPRs[t].status = "completed"
    /\ \E t \in DOMAIN tgtPRs :
        srcPRStatus[tgtPRs[t].src] = "abandoned" /\ tgtPRs[t].status = "active"

\* C5: add_comments_to_pr posts one thread per source thread, in source
\* order; each posted thread has the comments of its source thread in the
\* same order, each with the source's parent id, 0 when the source has
\* parent id 0 or none.
C5_ThreadsReplayed ==
    entry = "add_comments_to_pr" =>
        /\ Len(posts) <= Len(srcPRThreads[1])
        /\ Finished => Len(posts) = Len(srcPRThreads[1])
        /\ \A t \in DOMAIN posts :
            LET src == srcPRThreads[1][t].comments
                out == posts[t].data.comments
            IN  /\ Len(out) = Len(src)
                /\ \A c \in DOMAIN src :
                    /\ out[c].content = src[c].content
                    /\ out[c].parentCommentId =
                         IF src[c].parentCommentId \in {NoParent, 0}
                         THEN 0 ELSE src[c].parentCommentId

\* C5 witness: two threads were posted, the first with a reply to its first
\* comment, the second with a comment that has no parent id.
C5_Witness ==
    /\ Finished /\ entry = "add_comments_to_pr"
    /\ Len(posts) = 2
    /\ \E c \in DOMAIN srcPRThreads[1][1].comments :
         srcPRThreads[1][1].comments[c].parentCommentId = 1
    /\ \E c \in DOMAIN srcPRThreads[1][2].comments :
         srcPRThreads[1][2].comments[c].parentCommentId = NoParent

\* C6 as stated: a source repository that migrate_pull_requests does not find
\* among the listed target repositories is created and its pull requests
\* are listed.
C6_Original ==
    \A n \in not_found :
        Finished => Issued("create_repo", n) /\ Issued("list_pull_requests", n)

\* C6 amended: migrate_pull_requests never issues a create-repository
\* request; a source repository not found among the listed target
\* repositories is skipped (no pull request of it is listed, fetched or
\* created), and the loop goes on: when the method has finished a listed
\* source, every source repository was either skipped so or had its pull
\* requests listed.
C6_MissingRepoSkipped ==
    entry = "migrate_pull_requests" =>
        /\ \A x \in DOMAIN calls : calls[x].op # "create_repo"
        /\ \A n \in not_found :
            /\ ~Issued("list_pull_requests", n)
            /\ \A p \in PRIds : srcPRRepo[p] = n =>
                 ~Issued("get_pr", p) /\ ~Issued("create_pr", p)
        /\ (Finished /\ calls[1].ok) =>
             \A n \in RepoNames : n \in not_found \/ Issued("list_pull_requests", n)

\* C6 witness: the first repository was not found and has a pull request,
\* and a pull request of the second repository was created.
C6_Witness ==
    /\ Finished /\ entry = "migrate_pull_requests"
    /\ 1 \in not_found
    /\ \E p \in PRIds : srcPRRepo[p] = 1
    /\ \E p \in PRIds : srcPRRepo[p] = 2 /\ Succeeded("create_pr", p)

\* Every pull request of a listed repository was taken up.
AllPRsTaken ==
    \A n \in RepoNames :
        Succeeded("list_pull_requests", n) =>
            \A p \in PRIds : srcPRRepo[p] = n => Issued("get_pr", p)

\* Every source repository of a listed source was taken up.
AllReposTaken ==
    calls[1].ok => \A n \in RepoNames : n \in not_found \/ Issued("list_pull_requests", n)

\* C9 as stated: a failed fetch of the fields or of the thread list means no
\* creation; a failed creation means no thread post and no status update; the
\* remaining pull requests are processed.
C9_Original ==
    entry = "migrate_pull_requests" =>
        /\ \A p \in PRIds :
            /\ (FailedCall("get_pr", p) \/ FailedCall("get_threads", p)) =>
                 ~Issued("create_pr", p)
            /\ FailedCall("create_pr", p) =>
                 ~Issued("post_thread", p) /\ ~Issued("update_pr_status", p)
        /\ Finished => AllPRsTaken /\ AllReposTaken

\* C9 amended: a failed fetch of the fields means no thread-list fetch and
\* no creation; a failed fetch of the thread list means the pull request is
\* still created, without any thread post; a failed creation means no thread
\* post and no status update; in each case the remaining pull requests of
\* that repository and of the later repositories are processed.
C9_FailureSkipsOnlyThatPR ==
    entry = "migrate_pull_requests" =>
        /\ \A p \in PRIds :
            /\ FailedCall("get_pr", p) =>
                 ~Issued("get_threads", p) /\ ~Issued("create_pr", p)
            /\ FailedCall("get_threads", p) =>
                 /\ ~Issued("post_thread", p)
                 /\ Finished => Issued("create_pr", p)
            /\ FailedCall("create_pr", p) =>
                 ~Issued("post_thread", p) /\ ~Issued("update_pr_status", p)
        /\ Finished => AllPRsTaken /\ AllReposTaken

\* C9 witness: in one repository the first pull request was skipped for a
\* failed fetch of its fields or a failed creation, or was created after a
\* failed fetch of its thread list, and the second one was created.
C9_Witness ==
    /\ Finished /\ entry = "migrate_pull_requests"
    /\ srcPRRepo[1] = srcPRRepo[2]
    /\ FailedCall("get_pr", 1) \/ FailedCall("create_pr", 1) \/ FailedCall("get_threads", 1)
    /\ Succeeded("create_pr", 2)

\* C10: for a created target pull request every thread of the fetched thread
\* list is posted once, whatever the outcome of the earlier posts, and the
\* status update is issued when the source status is not active.
C10_PostFailureBlocksNothing ==
    (Finished /\ entry = "migrate_pull_requests") =>
        \A p \in PRIds : Succeeded("create_pr", p) =>
            /\ Cardinality(CallsOf("post_thread", p)) =
                 IF Succeeded("get_threads", p) THEN Len(srcPRThreads[p]) ELSE 0
            /\ srcPRStatus[p] # "active" => Issued("update_pr_status", p)

\* C10 witness: the first thread post of a pull request failed, a later one
\* succeeded and the status update was issued.
C10_Witness ==
    /\ Finished /\ entry = "migrate_pull_requests"
    /\ \E p \in PRIds :
        /\ Cardinality(CallsOf("post_thread", p)) >= 2
        /\ \E x, y \in CallsOf("post_thread", p) : x < y /\ ~calls[x].ok /\ calls[y].ok
        /\ Issued("update_pr_status", p)


\* The url names work item `id`, in either spelling of the resource segment.
RefersTo(url, id) ==
    /\ Len(url) >= 2
    /\ url[Len(url) - 1] \in UrlForms
    /\ url[Len(url)] = ToString(id)

\* The target work item created in this invocation from source item a.
Counterpart(a) == tgtWIs[TargetIndex(work_item_map[a])]

\* C2: when migrate_work_items has finished, for source items A and B that
\* were both created, A having a relation of kind r to B, and A's relation
\* fetch and patch not having failed, the target counterpart of A has a
\* relation of kind r to the target counterpart of B.
C2_RelationsRewritten ==
    (Finished /\ entry = "migrate_work_items") =>
        \A a, c \in ItemIds :
            (/\ Succeeded("create_work_item", a)
             /\ Succeeded("create_work_item", c)
             /\ Succeeded("get_relations", a)
             /\ ~FailedCall("update_relations", a)) =>
                \A x \in DOMAIN srcRels[a] :
                    RefersTo(srcRels[a][x].url, c) =>
                        \E y \in DOMAIN Counterpart(a).rels :
                            /\ Counterpart(a).rels[y].rel = srcRels[a][x].rel
                            /\ RefersTo(Counterpart(a).rels[y].url, work_item_map[c])

\* The source relations of item a whose url names a mapped source item.
Resolvable(a) ==
    {x \in DOMAIN srcRels[a] :
        \E c \in DOMAIN work_item_map : RefersTo(srcRels[a][x].url, c)}

\* C3: every operation of every relation patch carries the kind of a source
\* relation of the patched item's source and the url of a target id that the
\* Identity Map holds for the source item that relation names; a relation to
\* an item that is not mapped is in no patch; and every item whose creation
\* succeeded is in the Identity Map, whatever its relations.
C3_OnlyResolvableRelations ==
    entry = "migrate_work_items" =>
        /\ \A x \in DOMAIN patches :
            LET a == patches[x].src IN
            /\ a \in DOMAIN work_item_map
            /\ patches[x].wi = work_item_map[a]
            /\ Len(patches[x].ops) <= Cardinality(Resolvable(a))
            /\ \A o \in DOMAIN patches[x].ops :
                \E y \in Resolvable(a) : \E c \in DOMAIN work_item_map :
                    /\ RefersTo(srcRels[a][y].url, c)
                    /\ patches[x].ops[o].value.rel = srcRels[a][y].rel
                    /\ patches[x].ops[o].value.url =
                         WorkItemUrl(target_org, "workItems", work_item_map[c])
        /\ \A a \in ItemIds :
            Succeeded("create_work_item", a) =>
                /\ a \in DOMAIN work_item_map
                /\ Counterpart(a).src = a

\* C3 witness: an item with a relation to a mapped item and one to the
\* filtered item was created, and its patch carries one operation.
C3_Witness ==
    /\ Finished /\ entry = "migrate_work_items"
    /\ \E x \in DOMAIN patches :
        LET a == patches[x].src IN
        /\ Len(patches[x].ops) = 1
        /\ Len(srcRels[a]) = 2
        /\ \E y \in DOMAIN srcRels[a] : RefersTo(srcRels[a][y].url, FilteredItem)
        /\ a \in DOMAIN work_item_map


\* The place of a sync method in run_migration.
PhaseRank(fn) ==
    CASE fn = "migrate_repos" -> 1
      [] fn = "migrate_pull_requests" -> 2
      [] fn = "migrate_work_items" -> 3

\* The requests only repository sync, pull request sync and work item sync
\* issue.
RepoOps == {"get_project_id", "create_repo", "git_clone", "git_push"}
PullRequestOps ==
    {"list_pull_requests", "get_pr", "get_threads", "create_pr", "post_thread",
     "update_pr_status"}
ItemOps == {"wiql", "get_work_items", "create_work_item", "get_relations", "update_relations"}

OpRank(op) ==
    IF op \in RepoOps THEN 1 ELSE IF op \in PullRequestOps THEN 2
    ELSE IF op \in ItemOps THEN 3 ELSE 0

\* C7: in run_migration the remote calls are issued phase after phase, never
\* a call of an earlier sync method right after one of a later method
\* (repositories, then pull requests, then work items), each
\* request issued by the method it belongs to; and a relation fetch or patch
\* is issued only after a creation request for every listed source work item.
C7_PhaseOrder ==
    entry = "run_migration" =>
        /\ \A x \in 1..(Len(calls) - 1) :
            PhaseRank(calls[x].fn) <= PhaseRank(calls[x + 1].fn)
        /\ \A x \in DOMAIN calls :
            OpRank(calls[x].op) \in {0, PhaseRank(calls[x].fn)}
        /\ \A y \in DOMAIN calls :
            calls[y].op \in {"get_relations", "update_relations"} =>
                \A a \in ItemIds : \E x \in CallsOf("create_work_item", a) : x < y

\* C7 witness: a run that created a repository, created a pull request and
\* patched the relations of a work item.
C7_Witness ==
    /\ Finished /\ entry = "run_migration"
    /\ \E n \in RepoNames : Succeeded("create_repo", n)
    /\ \E p \in PRIds : Succeeded("create_pr", p)
    /\ \E a \in ItemIds : Succeeded("update_relations", a)


\* A step that changes the Identity Map is a successful create_work_item of
\* the first pass: it stores the id of the target work item just created
\* under the source item's id and leaves every other entry as it was.
MapStep ==
    work_item_map' # work_item_map =>
        /\ pc = "wi_create"
        /\ Len(calls') = Len(calls) + 1
        /\ LET c == calls'[Len(calls')] IN
            /\ c.fn = "migrate_work_items" /\ c.op = "create_work_item" /\ c.ok
            /\ c.ent = source_work_items[w]
            /\ DOMAIN work_item_map' = DOMAIN work_item_map \cup {c.ent}
            /\ \A a \in DOMAIN work_item_map \ {c.ent} : work_item_map'[a] = work_item_map[a]
            /\ Len(tgtWIs') = Len(tgtWIs) + 1
            /\ tgtWIs'[Len(tgtWIs')].src = c.ent
            /\ work_item_map'[c.ent] = tgtWIs'[Len(tgtWIs')].id

\* C11: the Identity Map changes only by a successful create_work_item of
\* the first pass of migrate_work_items, which adds source id -> target id
\* and removes nothing (so the second pass, migrate_repos and
\* migrate_pull_requests leave it as it is); and in the first run every key
\* is an item whose creation succeeded.
C11_MapOnlyGrowsInPhase1 ==
    /\ [](run = 1 => \A a \in DOMAIN work_item_map : Succeeded("create_work_item", a))
    /\ [][MapStep]_vars

\* C11 witness: a finished first run_migration in which the creation of one
\* item failed and that of another succeeded: only the latter is a key.
C11_Witness ==
    /\ Finished /\ entry = "run_migration" /\ run = 1
    /\ \E a, c \in ItemIds :
        /\ FailedCall("create_work_item", a) /\ a \notin DOMAIN work_item_map
        /\ Succeeded("create_work_item", c) /\ c \in DOMAIN work_item_map


\* The fields whose source values the target must not take over.
IdentityFields ==
    {"System.Id", "System.Rev", "System.CreatedBy", "System.CreatedDate",
     "System.ChangedBy", "System.ChangedDate", "System.TeamProject",
     "System.AreaPath", "System.IterationPath"}

\* C12: no operation of a payload built by create_work_item addresses an
\* identity, revision or audit field or the team project, or carries the
\* source's value of such a field; the area path and the iteration path are
\* each set once, to the target project's name.
C12_FieldExclusion ==
    \A x \in DOMAIN creates :
        LET ops == creates[x].operations
            fields == srcFields[creates[x].src]
        IN  /\ \A o \in DOMAIN ops : \A f \in IdentityFields :
                /\ ops[o].path = "/fields/" \o f =>
                     /\ f \in {"System.AreaPath", "System.IterationPath"}
                     /\ ops[o].value = target_project
                /\ f \in DOMAIN fields => ops[o].value # fields[f]
            /\ \A f \in {"System.AreaPath", "System.IterationPath"} :
                Cardinality({o \in DOMAIN ops : ops[o].path = "/fields/" \o f}) = 1

\* C12 witness: a payload was built for a source item that carries an id, an
\* area path and a title, and the title was copied.
C12_Witness ==
    /\ Finished /\ entry = "create_work_item"
    /\ \E x \in DOMAIN creates :
        LET fields == srcFields[creates[x].src] IN
        /\ {"System.Id", "System.AreaPath", "System.Title"} \subseteq DOMAIN fields
        /\ \A f \in DOMAIN fields : fields[f] # None
        /\ \E o \in DOMAIN creates[x].operations :
            creates[x].operations[o] = AddOp("System.Title", SourceValue("System.Title"))


\* The migration marker of a title and the provenance text of a description.
Marker == "[MIGRATED] "
Provenance == "Migrated from " \o source_org \o "/" \o source_project

\* The description starts with the provenance text: it is that text followed
\* by the separator and the source description, if any.
StartsWithProvenance(description, p) ==
    \E rest \in {"", SrcDescription(p)} : description = Provenance \o "\n\n" \o rest

\* A step that creates a target pull request creates it active.
CreatedActive ==
    Len(tgtPRs') > Len(tgtPRs) =>
        /\ Len(tgtPRs') = Len(tgtPRs) + 1
        /\ tgtPRs'[Len(tgtPRs')].status = "active"
        /\ tgtPRs'[Len(tgtPRs')].src = prs[j]

\* C13: every pull request of the target has the marker followed by the
\* source title as its title and a description that starts with the
\* provenance text, and every step that creates one creates it with status
\* active, whatever the source status.
C13_MarkedAndActive ==
    /\ [](\A t \in DOMAIN tgtPRs :
            /\ tgtPRs[t].title = Marker \o SrcTitle(tgtPRs[t].src)
            /\ StartsWithProvenance(tgtPRs[t].description, tgtPRs[t].src))
    /\ [][CreatedActive]_vars

\* C13 witness: target pull requests were created from an abandoned source
\* pull request and from one without a description.
C13_Witness ==
    /\ Finished /\ entry = "migrate_pull_requests"
    /\ \E t \in DOMAIN tgtPRs : srcPRStatus[tgtPRs[t].src] = "abandoned"
    /\ \E t \in DOMAIN tgtPRs : SrcDescription(tgtPRs[t].src) = None
    /\ \E t \in DOMAIN tgtPRs : SrcDescription(tgtPRs[t].src) # None


\* The positions inside clone_repo.
InClone == pc \in {"clone_from", "clone_push", "clone_finally"}

\* C14: the temporary directory of clone_repo no longer exists when
\* clone_repo has returned, whatever the outcome of the clone and the push:
\* outside clone_repo no temporary directory exists, inside it exactly one,
\* and none when migrate_repos has finished.
C14_TempReleased ==
    /\ Cardinality(tempDirs) <= 1
    /\ ~InClone => tempDirs = {}
    /\ Finished => tempDirs = {}


\* The first request of each sync method was issued in this invocation.
ThreePhases ==
    /\ \E x \in DOMAIN calls :
        calls[x].fn = "migrate_repos" /\ calls[x].op = "list_repos_source"
    /\ \E x \in DOMAIN calls :
        calls[x].fn = "migrate_pull_requests" /\ calls[x].op = "list_repos_source"
    /\ \E x \in DOMAIN calls :
        calls[x].fn = "migrate_work_items" /\ calls[x].op = "wiql"

\* C15: every run_migration that starts finishes, having entered repository
\* sync, pull request sync and work item sync, whatever remote calls and
\* history transfers failed.
C15_AllPhasesReached ==
    (entry = "run_migration" /\ pc = Start("run_migration") /\ calls = <<>>)
        ~> (Finished /\ ThreePhases)

\* C15 witness: a run_migration finished all three phases although a remote
\* call or a history transfer of repository sync failed.
C15_Witness ==
    /\ Finished /\ entry = "run_migration" /\ ThreePhases
    /\ \E x \in DOMAIN calls : calls[x].fn = "migrate_repos" /\ ~calls[x].ok


\* The requests that change the target project.
MutatingOps ==
    {"create_repo", "git_clone", "git_push", "create_pr", "post_thread",
     "update_pr_status", "create_work_item", "update_relations"}

\* C16: within one invocation each mutating request is issued at most once
\* for a source entity (a thread post at most once for a given thread of a
\* pull request), so a request that failed is not issued again: the request
\* issued last was never issued before in this invocation.
C16_NoRetry ==
    /\ \A x \in 1..(Len(calls) - 1) :
        LET last == calls[Len(calls)] IN
        (last.op \in MutatingOps \ {"post_thread"} /\ calls[x].op = last.op) =>
            calls[x].ent # last.ent
    /\ \A x \in 1..(Len(posts) - 1) :
        LET last == posts[Len(posts)] IN
        posts[x].pr = last.pr => posts[x].data # last.data
    /\ \A p \in PRIds : Cardinality(CallsOf("post_thread", p)) <= Len(srcPRThreads[p])

\* C16 witness: a run_migration finished in which a mutating request failed
\* and both an earlier and a later mutating request succeeded.
C16_Witness ==
    /\ Finished /\ entry = "run_migration"
    /\ \E x, y, z \in DOMAIN calls :
        /\ x < y /\ y < z
        /\ {calls[x].op, calls[y].op, calls[z].op} \subseteq MutatingOps
        /\ calls[x].ok /\ ~calls[y].ok /\ calls[z].ok


\* Sync method fn issued request op in this invocation and it failed.
FailedIn(fn, op) ==
    \E x \in DOMAIN calls : calls[x].fn = fn /\ calls[x].op = op /\ ~calls[x].ok

\* The requests sync method fn issued in this invocation.
OpsOf(fn) == {calls[x].op : x \in {y \in DOMAIN calls : calls[y].fn = fn}}

\* While the failed work item query is in the log the Identity Map stays as
\* it is.
QueryFailedKeepsMap ==
    FailedIn("migrate_work_items", "wiql") => work_item_map' = work_item_map

\* C17: a sync method whose listing of the source repositories failed
\* issues no create, transfer, thread or status request (and lists no pull
\* request); after a failed work item query migrate_work_items creates
\* nothing, patches nothing and leaves the Identity Map as it is; and a
\* finished run_migration has entered all three phases all the same.
C17_FailedListingNoOps ==
    /\ [](/\ \A fn \in {"migrate_repos", "migrate_pull_requests"} :
              FailedIn(fn, "list_repos_source") =>
                  OpsOf(fn) \subseteq {"list_repos_source", "list_repos_target"}
          /\ FailedIn("migrate_work_items", "wiql") =>
              /\ OpsOf("migrate_work_items") = {"wiql"}
              /\ creates = <<>> /\ patches = <<>>
              /\ run = 1 => work_item_map = <<>>
          /\ (Finished /\ entry = "run_migration") => ThreePhases)
    /\ [][QueryFailedKeepsMap]_vars

\* C17 witness: in a finished run_migration the source listing of
\* migrate_repos failed, migrate_pull_requests created a pull request and
\* migrate_work_items created a work item.
C17_Witness ==
    /\ Finished /\ entry = "run_migration"
    /\ FailedIn("migrate_repos", "list_repos_source")
    /\ "create_pr" \in OpsOf("migrate_pull_requests")
    /\ "create_work_item" \in OpsOf("migrate_work_items")


\* The positions of migrate_repos after its two listings.
InReposLoop ==
    pc \in {"mr_loop", "create_pid", "create_post", "clone_mkdtemp", "clone_from",
            "clone_push", "clone_finally"}

\* C18: once migrate_repos has created a target repository for a name, its
\* map of target repositories holds that name for the rest of the method,
\* no second create-repository request is issued for the name in the run,
\* and a later lookup of the name in the run finds the repository.
C18_CreatedRepoRegistered ==
    entry = "run_migration" =>
        \A n \in RepoNames : Succeeded("create_repo", n) =>
            /\ InReposLoop => n \in target_repo_map
            /\ Cardinality(CallsOf("create_repo", n)) <= 1
            /\ n \notin not_found


\* C19: the requests for a target pull request come in the order create,
\* thread posts, status update: a thread post or a status update for a
\* source pull request follows its successful creation, a status update
\* follows every thread post; a created pull request of a finished method
\* has a status update if and only if its source status is not active; and
\* every status update carries the source status.
C19_CreatePostsThenStatus ==
    entry = "migrate_pull_requests" =>
        /\ \A y \in DOMAIN calls :
            /\ calls[y].op \in {"post_thread", "update_pr_status"} =>
                 \E x \in CallsOf("create_pr", calls[y].ent) : x < y /\ calls[x].ok
            /\ calls[y].op = "update_pr_status" =>
                 \A x \in CallsOf("post_thread", calls[y].ent) : x < y
        /\ Finished =>
             \A p \in PRIds : Succeeded("create_pr", p) =>
                 (Issued("update_pr_status", p) <=> srcPRStatus[p] # "active")
        /\ \A u \in DOMAIN updates :
            /\ updates[u].status = srcPRStatus[updates[u].src]
            /\ updates[u].status # "active"
            /\ tgtPRs[updates[u].pr].src = updates[u].src

\* C19 witness: a created pull request with threads got its status update,
\* a created active one got none.
C19_Witness ==
    /\ Finished /\ entry = "migrate_pull_requests"
    /\ \E p \in PRIds :
        /\ Succeeded("create_pr", p) /\ Issued("post_thread", p)
        /\ Issued("update_pr_status", p) /\ srcPRStatus[p] = "abandoned"
    /\ \E p \in PRIds :
        /\ Succeeded("create_pr", p) /\ srcPRStatus[p] = "active"
        /\ ~Issued("update_pr_status", p)


\* C20: when a run_migration starts, the second one on the same tool
\* instance included, the Identity Map is empty; and a relation patch of a
\* run names only target work items created in that run.
C20_MapFreshPerRun ==
    entry = "run_migration" =>
        /\ (pc = Start("run_migration") /\ calls = <<>>) => work_item_map = <<>>
        /\ \A x \in DOMAIN patches : \A o \in DOMAIN patches[x].ops :
            \E a \in ItemIds :
                /\ Succeeded("create_work_item", a)
                /\ patches[x].ops[o].value.url =
                     WorkItemUrl(target_org, "workItems", work_item_map[a])


\* C21: when a migrate_repos that listed the source has finished, the
\* history transfer was invoked exactly once for every source repository
\* that has a target repository, be it one the target listing returned (the
\* target held it before the run, transferred or not) or one the run
\* created; and a transfer whose clone succeeded pushed once.
C21_TransferUnconditional ==
    (Finished /\ entry = "migrate_repos" /\ calls[1].ok) =>
        \A n \in RepoNames :
            ((calls[2].ok /\ tgtRepos[n] > 0) \/ Succeeded("create_repo", n)) =>
                /\ Cardinality(CallsOf("git_clone", n)) = 1
                /\ Succeeded("git_clone", n) => Cardinality(CallsOf("git_push", n)) = 1

\* C21 witness: a second migrate_repos starts the transfer of a repository
\* that the target holds and that the first run transferred.
C21_Witness ==
    /\ entry = "migrate_repos" /\ run = 2 /\ pc = "clone_from"
    /\ ~Issued("create_repo", source_repos[i])
    /\ tgtPushed[source_repos[i]]


\* The target work items created from source work item a.
ItemCopies(a) == {t \in DOMAIN tgtWIs : tgtWIs[t].src = a}

\* C22: when the run-th run_migration in a row has finished and no call has
\* failed, the target holds `run` pull requests for every source pull
\* request and `run` work items for every source work item (one further of
\* each per run), and one repository per name; from the second run on no
\* repository is created.
C22_RerunDuplicates ==
    (Finished /\ entry = "run_migration" /\ failures = 0) =>
        /\ \A p \in PRIds : Cardinality(TargetsOf(p)) = run
        /\ Len(tgtPRs) = run * MaxPRs
        /\ \A a \in ItemIds : Cardinality(ItemCopies(a)) = run
        /\ Len(tgtWIs) = run * MaxItems
        /\ \A n \in RepoNames : tgtRepos[n] = 1
        /\ run >= 2 => \A n \in RepoNames : ~Issued("create_repo", n)

\* C22 witness: the second run_migration has finished without a failed
\* call and the target holds two pull requests and two work items for the
\* first source pull request and work item.
C22_Witness ==
    /\ Finished /\ entry = "run_migration" /\ failures = 0 /\ run = 2
    /\ Cardinality(TargetsOf(1)) = 2
    /\ Cardinality(ItemCopies(1)) = 2


\* C23: in every payload built by create_work_item no two operations
\* address the same field path, and System.Description, System.AreaPath and
\* System.IterationPath are each addressed exactly once.
C23_OneOperationPerPath ==
    \A x \in DOMAIN creates :
        LET ops == creates[x].operations IN
        /\ \A o, q \in DOMAIN ops : o < q => ops[o].path # ops[q].path
        /\ \A f \in {"System.Description", "System.AreaPath", "System.IterationPath"} :
            Cardinality({o \in DOMAIN ops : ops[o].path = "/fields/" \o f}) = 1

====
